---- MODULE Spec2Model ----
(***************************************************************************)
(* Model of fate_arch/data_table/base.py: the metadata operations of Table *)
(* (get_schema, save_schema, destroy_schema, destroy) over the catalog     *)
(* table MachineLearningDataSchema.                                        *)
(***************************************************************************)
EXTENDS Integers, Sequences, FiniteSets, TLC

VARIABLES store,   \* rows of MachineLearningDataSchema
          clock,   \* value current_timestamp() returns now
          last,    \* the last completed call of the sequential caller
          pc,      \* position of each concurrent caller inside save_schema
          loc,     \* arguments and selected rows of each concurrent caller
          store0,  \* rows of the catalog when the concurrent callers started
          open     \* number of DB.connection_context() scopes that are open

vars == <<store, clock, last, pc, loc, store0, open>>

----------------------------------------------------------------------------
(* Bounds *)

MaxRows == 2
MaxClock == 1
MaxCount == 1
MaxStored == 4

(* Program constant: the cap of the sample list *)
SampleCap == 200

Procs == {1, 2}

----------------------------------------------------------------------------
(* Python values: dict, list, int, None, as tagged records *)

EmptyMap == [k \in {} |-> 0]

PyNone == [t |-> "none", d |-> EmptyMap, l |-> <<>>, n |-> 0]

PyDict(m) == [t |-> "dict", d |-> m, l |-> <<>>, n |-> 0]

PyList(s) == [t |-> "list", d |-> EmptyMap, l |-> s, n |-> 0]

PyInt(i) == [t |-> "int", d |-> EmptyMap, l |-> <<>>, n |-> i]

(* Python truth value: `not x`, `if x:` *)
Truthy(v) ==
    CASE v.t = "dict" -> DOMAIN v.d # {}
      [] v.t = "list" -> Len(v.l) > 0
      [] v.t = "int" -> v.n # 0
      [] OTHER -> FALSE

Rep(x, n) == [i \in 1..n |-> x]

Min(a, b) == IF a < b THEN a ELSE b

(* s[:n] for n >= 0 *)
Slice(s, n) == SubSeq(s, 1, Min(n, Len(s)))

(* dict.update *)
Overlay(old, new) ==
    [k \in (DOMAIN old) \cup (DOMAIN new) |->
        IF k \in DOMAIN new THEN new[k] ELSE old[k]]

----------------------------------------------------------------------------
(* Codec: serialize_b64 / deserialize_b64.  A blob is a valid encoding of  *)
(* a value, an undecodable byte string, or the empty (null) column.        *)

serialize_b64(v) == [kind |-> "b64", val |-> v]

CorruptBlob == [kind |-> "corrupt", val |-> PyNone]

EmptyBlob == [kind |-> "empty", val |-> PyNone]

(* `if schema.f_schema:` *)
BlobTruthy(b) == b.kind # "empty"

Decodable(b) == b.kind = "b64"

deserialize_b64(b) == b.val

----------------------------------------------------------------------------
(* Catalog Store *)

Row(name, namespace, f_schema, f_part_of_data, f_count, f_update_time) ==
    [f_table_name |-> name, f_namespace |-> namespace, f_schema |-> f_schema,
     f_part_of_data |-> f_part_of_data, f_count |-> f_count,
     f_update_time |-> f_update_time]

(* MachineLearningDataSchema.select().where(f_table_name == .., f_namespace == ..) *)
Select(rows, name, namespace) ==
    {r \in rows : r.f_table_name = name /\ r.f_namespace = namespace}

(* a delete whose where clause compares f_table_name with the namespace *)
DeleteWrongKey(rows, name, namespace) == rows \ Select(rows, namespace, namespace)

(* a delete whose where clause compares the table name only *)
DeleteByName(rows, name, namespace) ==
    {r \in rows : r.f_table_name # name}

(* a delete whose where clause compares the namespace only *)
DeleteByNamespace(rows, name, namespace) ==
    {r \in rows : r.f_namespace # namespace}

(* MachineLearningDataSchema.delete().where(..).execute() *)
Delete(rows, name, namespace) == rows \ Select(rows, name, namespace)

(* schema[0] *)
First(sel) == CHOOSE r \in sel : TRUE

(* schema.save(..): writes the row back in place of the stored row of its key *)
Save(rows, new) ==
    IF Select(rows, new.f_table_name, new.f_namespace) = {} THEN rows
    ELSE Delete(rows, new.f_table_name, new.f_namespace) \cup {new}

current_timestamp == clock

(* with DB.connection_context(): entering the block opens a scope *)
Acquire(n) == n + 1

(* a scope that is closed at the end of the block only, and so stays open  *)
(* when the block raises                                                   *)
ReleaseUnlessRaised(n, raised) == IF raised = "none" THEN n - 1 ELSE n

(* with DB.connection_context(): leaving the block, normally or with the   *)
(* exception `raised`, closes the scope                                    *)
Release(n, raised) == n - 1

----------------------------------------------------------------------------
(* Outcome of a call: the exception it raised ("none": returned normally), *)
(* the value returned, the rows of the catalog afterwards, and whether an  *)
(* error was written to stat_logger.                                       *)

Outcome(exc, ret, rows, logged) ==
    [exc |-> exc, ret |-> ret, rows |-> rows, logged |-> logged]

(* a get_schema that starts from None *)
schema_data_default_none == PyNone

(* get_schema: schema_data = {} before the lookup *)
schema_data_default == PyDict(EmptyMap)

(* a get_schema whose except clause keeps the {} it started from *)
DecodeOrEmpty(blob) ==
    IF Decodable(blob) THEN deserialize_b64(blob) ELSE PyDict(EmptyMap)

(* get_schema: try: deserialize_b64(blob) / except: schema_data = None *)
DecodeOrNone(blob) ==
    IF Decodable(blob) THEN deserialize_b64(blob) ELSE PyNone

(* Table.get_schema *)
get_schema(rows, name, namespace, type) ==
    LET sel == Select(rows, name, namespace)
        schema == First(sel)
        schema_data ==
            IF sel = {} THEN schema_data_default
            ELSE IF type = "schema" THEN DecodeOrNone(schema.f_schema)
            ELSE IF type = "data" THEN DecodeOrNone(schema.f_part_of_data)
            ELSE IF type = "count" THEN PyInt(schema.f_count)
            ELSE schema_data_default
    IN  Outcome("none", schema_data, rows, FALSE)

(* the method of dict that merges a mapping *)
MergeMethodUpdate == "update"

(* The method save_schema calls on the decoded schema mapping *)
MergeMethod == "updata"

(* getattr(dict, method)(arg): dict has `update`, and no `updata` *)
DictCall(d, method, arg) ==
    IF method = "update"
    THEN [exc |-> "none", val |-> PyDict(Overlay(d.d, arg.d))]
    ELSE [exc |-> "AttributeError", val |-> d]

(* the sample branch of save_schema, applied to the selected row *)
SaveData(schema, party_of_data) ==
    IF ~Truthy(party_of_data) THEN [exc |-> "none", row |-> schema]
    ELSE IF ~Decodable(schema.f_part_of_data)
         THEN [exc |-> "DecodeError", row |-> schema]
    ELSE LET _f_part_of_data == deserialize_b64(schema.f_part_of_data).l
         IN  IF Len(_f_part_of_data) < SampleCap
             THEN [exc |-> "none",
                   row |-> [schema EXCEPT !.f_part_of_data =
                               serialize_b64(PyList(Slice(party_of_data.l, SampleCap)))]]
             ELSE [exc |-> "none", row |-> schema]

(* the count branch of save_schema *)
SaveCount(schema, count) ==
    IF count # 0 THEN [schema EXCEPT !.f_count = @ + count] ELSE schema

(* a save_schema that creates the missing row *)
CreateMissing(rows, name, namespace) ==
    Outcome("none", PyNone,
            rows \cup {Row(name, namespace, serialize_b64(PyDict(EmptyMap)),
                           serialize_b64(PyList(<<>>)), 0, 0)}, FALSE)

(* save_schema: else: raise Exception('please create table ...') *)
RaiseMissing(rows, name, namespace) ==
    Outcome("Exception", PyNone, rows, FALSE)

(* a save_schema that appends the supplied samples to the stored list and  *)
(* stores the result, with no cap                                          *)
save_schema_nocap(name, namespace, sel, rows, schema_data0, party_of_data0, count, now) ==
    IF sel = {} THEN RaiseMissing(rows, name, namespace)
    ELSE IF Truthy(party_of_data0) /\ Decodable(First(sel).f_part_of_data)
         THEN Outcome("none", PyNone,
                      Save(rows, [First(sel) EXCEPT !.f_part_of_data =
                          serialize_b64(PyList(deserialize_b64(@).l \o party_of_data0.l))]),
                      FALSE)
    ELSE Outcome("AttributeError", PyNone, rows, FALSE)

(* a save_schema whose save inserts the changed row next to the stored one *)
save_schema_insert(name, namespace, sel, rows, schema_data0, party_of_data0, count, now) ==
    IF sel = {} THEN RaiseMissing(rows, name, namespace)
    ELSE Outcome("none", PyNone,
                 rows \cup {[SaveCount(First(sel), count) EXCEPT !.f_update_time = now]},
                 FALSE)

(* a save_schema that saves the count before it merges the schema, and     *)
(* then raises in the merge                                                *)
save_schema_countfirst(name, namespace, sel, rows, schema_data0, party_of_data0, count, now) ==
    IF sel = {} THEN RaiseMissing(rows, name, namespace)
    ELSE Outcome("AttributeError", PyNone, Save(rows, SaveCount(First(sel), count)), FALSE)

(* Table.save_schema of the table (name, namespace); sel: the rows its     *)
(* select returned, rows: the catalog at the time of its save              *)
save_schema(name, namespace, sel, rows, schema_data0, party_of_data0, count, now) ==
    LET schema_data == IF ~Truthy(schema_data0) THEN PyDict(EmptyMap) ELSE schema_data0
        party_of_data == IF ~Truthy(party_of_data0) THEN PyList(<<>>) ELSE party_of_data0
        schema == First(sel)
    IN  IF sel = {} THEN RaiseMissing(rows, name, namespace)
        ELSE IF BlobTruthy(schema.f_schema) /\ ~Decodable(schema.f_schema)
             THEN Outcome("DecodeError", PyNone, rows, FALSE)
        ELSE IF ~BlobTruthy(schema.f_schema)
             THEN Outcome("UnboundLocalError", PyNone, rows, FALSE)
        ELSE LET merged == DictCall(deserialize_b64(schema.f_schema), MergeMethod, schema_data)
             IN  IF merged.exc # "none" THEN Outcome(merged.exc, PyNone, rows, FALSE)
                 ELSE LET s1 == [schema EXCEPT !.f_schema = serialize_b64(merged.val)]
                          s2 == SaveData(s1, party_of_data)
                          s3 == SaveCount(s2.row, count)
                          s4 == [s3 EXCEPT !.f_update_time = now]
                      IN  IF s2.exc # "none" THEN Outcome(s2.exc, PyNone, rows, FALSE)
                          ELSE Outcome("none", PyNone, Save(rows, s4), FALSE)

(* a destroy_schema with no try/except around the deletion *)
destroy_schema_propagates(rows, name, namespace, deleteFails) ==
    IF deleteFails THEN Outcome("OperationalError", PyNone, rows, FALSE)
    ELSE Outcome("none", PyNone, Delete(rows, name, namespace), FALSE)

(* the exception of a deletion that fails *)
DeleteRaises(deleteFails) == IF deleteFails THEN "OperationalError" ELSE "none"

(* Table.destroy_schema; deleteFails: the deletion (or its connection) raises *)
destroy_schema(rows, name, namespace, deleteFails) ==
    IF deleteFails THEN Outcome("none", PyNone, rows, TRUE)
    ELSE Outcome("none", PyNone, Delete(rows, name, namespace), FALSE)

(* Table.destroy *)
destroy(rows, name, namespace, deleteFails) ==
    destroy_schema(rows, name, namespace, deleteFails)

----------------------------------------------------------------------------
(* Inputs *)

Names == {"t1", "t2"}

Namespaces == {"ns1", "ns2"}

(* (name, namespace) of the tables of the callers *)
Keys == Names \X Namespaces

Types == {"schema", "data", "count"}

SchemaArgs == {PyNone, PyDict(EmptyMap), PyDict([k \in {"a", "c"} |-> 2])}

SampleArgs == {PyNone, PyList(<<"x", "y">>), PyList(Rep("z", SampleCap + 1))}

Counts == (-1)..MaxCount

(* Contents of the entries the provisioning step has created *)
Shapes ==
    { [f_schema |-> serialize_b64(PyDict([k \in {"a"} |-> 1])),
       f_part_of_data |-> serialize_b64(PyList(<<>>)), f_count |-> 0],
      [f_schema |-> serialize_b64(PyDict(EmptyMap)),
       f_part_of_data |-> serialize_b64(PyList(Rep("s", SampleCap - 1))), f_count |-> 1],
      [f_schema |-> serialize_b64(PyDict([k \in {"a", "b"} |-> 1])),
       f_part_of_data |-> serialize_b64(PyList(Rep("s", SampleCap))), f_count |-> MaxCount],
      [f_schema |-> CorruptBlob, f_part_of_data |-> CorruptBlob, f_count |-> 0],
      [f_schema |-> EmptyBlob,
       f_part_of_data |-> serialize_b64(PyList(<<"s">>)), f_count |-> 0] }

Stores ==
    UNION { { { Row(k[1], k[2], f[k].f_schema, f[k].f_part_of_data, f[k].f_count, 0) : k \in K }
              : f \in [K -> Shapes] }
            : K \in {K \in SUBSET Keys : Cardinality(K) <= MaxRows} }

NoCall ==
    [op |-> "none", name |-> "t1", namespace |-> "ns1", type |-> "schema",
     schema_data |-> PyNone, party_of_data |-> PyNone, count |-> 0,
     pre |-> {}, exc |-> "none", ret |-> PyNone, logged |-> FALSE,
     now |-> 0, deleteFails |-> FALSE]

NoLoc ==
    [name |-> "t1", namespace |-> "ns1", schema_data |-> PyNone,
     party_of_data |-> PyNone, count |-> 0, sel |-> {}, exc |-> "none"]

CountsInRange(rows) == \A r \in rows : r.f_count \in (-MaxStored)..MaxStored

----------------------------------------------------------------------------
(* One caller: every call runs to its end before the next starts.  `last`  *)
(* holds the call that has just ended until the caller has taken its       *)
(* result.                                                                 *)

Init ==
    /\ store \in Stores
    /\ store0 = {}
    /\ clock = 0
    /\ last = NoCall
    /\ pc = [p \in Procs |-> "idle"]
    /\ loc = [p \in Procs |-> NoLoc]
    /\ open = 0

(* raised: the exception that leaves the `with` block of the call;         *)
(* deleteFails: whether the deletion of a destroy_schema raised            *)
Done(op, name, namespace, type, schema_data, party_of_data, count, out, raised, deleteFails) ==
    /\ last.op = "none"
    /\ last' = [op |-> op, name |-> name, namespace |-> namespace, type |-> type,
                schema_data |-> schema_data, party_of_data |-> party_of_data,
                count |-> count, pre |-> store, exc |-> out.exc, ret |-> out.ret,
                logged |-> out.logged, now |-> current_timestamp,
                deleteFails |-> deleteFails]
    /\ store' = out.rows
    /\ open' = Release(Acquire(open), raised)
    /\ UNCHANGED <<clock, pc, loc, store0>>

GetSchema ==
    \E k \in Keys, type \in Types :
        Done("get_schema", k[1], k[2], type, PyNone, PyNone, 0,
             get_schema(store, k[1], k[2], type), "none", FALSE)

SaveSchema ==
    \E k \in Keys, schema_data \in SchemaArgs,
       party_of_data \in SampleArgs, count \in Counts :
        LET out == save_schema(k[1], k[2], Select(store, k[1], k[2]), store,
                               schema_data, party_of_data, count, current_timestamp)
        IN  /\ Done("save_schema", k[1], k[2], "schema", schema_data,
                    party_of_data, count, out, out.exc, FALSE)
            /\ CountsInRange(out.rows)

DestroySchema ==
    \E k \in Keys, deleteFails \in BOOLEAN :
        Done("destroy_schema", k[1], k[2], "schema", PyNone, PyNone, 0,
             destroy_schema(store, k[1], k[2], deleteFails),
             DeleteRaises(deleteFails), deleteFails)

Destroy ==
    \E k \in Keys, deleteFails \in BOOLEAN :
        Done("destroy", k[1], k[2], "schema", PyNone, PyNone, 0,
             destroy(store, k[1], k[2], deleteFails),
             DeleteRaises(deleteFails), deleteFails)

(* the caller takes the result (or the exception) of the call *)
Return ==
    /\ last.op # "none"
    /\ last' = NoCall
    /\ UNCHANGED <<store, clock, pc, loc, store0, open>>

(* time passes *)
Tick ==
    /\ clock < MaxClock
    /\ clock' = clock + 1
    /\ UNCHANGED <<store, last, pc, loc, store0, open>>

Next == GetSchema \/ SaveSchema \/ DestroySchema \/ Destroy \/ Return \/ Tick

Spec == Init /\ [][Next]_vars

----------------------------------------------------------------------------
(* Concurrent callers: each caller runs one save_schema with a non-zero    *)
(* count; its select and its save are separate steps on the catalog.       *)

InitConcurrent ==
    /\ store \in Stores
    /\ store0 = store
    /\ clock = 0
    /\ last = NoCall
    /\ pc = [p \in Procs |-> "idle"]
    /\ loc = [p \in Procs |-> NoLoc]
    /\ open = 0

(* with DB.connection_context(): schema = select().where(..); if schema: *)
SaveSchemaSelect(p) ==
    /\ pc[p] = "idle"
    /\ \E k \in Keys, count \in Counts \ {0} :
          loc' = [loc EXCEPT ![p] =
                     [name |-> k[1], namespace |-> k[2], schema_data |-> PyNone,
                      party_of_data |-> PyNone, count |-> count,
                      sel |-> Select(store, k[1], k[2]), exc |-> "none"]]
    /\ pc' = [pc EXCEPT ![p] = "selected"]
    /\ open' = Acquire(open)
    /\ UNCHANGED <<store, clock, last, store0>>

(* the rest of save_schema, on the rows selected *)
SaveSchemaSave(p) ==
    /\ pc[p] = "selected"
    /\ LET out == save_schema(loc[p].name, loc[p].namespace, loc[p].sel, store,
                              loc[p].schema_data, loc[p].party_of_data,
                              loc[p].count, current_timestamp)
       IN  /\ store' = out.rows
           /\ loc' = [loc EXCEPT ![p].exc = out.exc]
           /\ CountsInRange(out.rows)
           /\ open' = Release(open, out.exc)
    /\ pc' = [pc EXCEPT ![p] = "done"]
    /\ UNCHANGED <<clock, last, store0>>

NextConcurrent == \E p \in Procs : SaveSchemaSelect(p) \/ SaveSchemaSave(p)

SpecConcurrent == InitConcurrent /\ [][NextConcurrent]_vars

----------------------------------------------------------------------------
(* Properties of the sequential caller (Spec) *)

(* the entry of the table of the last call, before and after the call *)
Before == Select(last.pre, last.name, last.namespace)

After == Select(store, last.name, last.namespace)

(* the entry existed and its schema and sample blobs were valid encodings *)
WellFormedBefore ==
    /\ Before # {}
    /\ Decodable(First(Before).f_schema)
    /\ Decodable(First(Before).f_part_of_data)

GetNow(type) == get_schema(store, last.name, last.namespace, type)

Contains(m, sub) == \A k \in DOMAIN sub : k \in DOMAIN m /\ m[k] = sub[k]

(* C1: a save_schema({k: v}) on an existing entry completes without error  *)
(* and a following get_schema('schema') returns a mapping containing k->v. *)
C1_SaveThenGetContains ==
    (last.op = "save_schema" /\ WellFormedBefore /\ Truthy(last.schema_data))
        => /\ last.exc = "none"
           /\ GetNow("schema").exc = "none"
           /\ GetNow("schema").ret.t = "dict"
           /\ Contains(GetNow("schema").ret.d, last.schema_data.d)

(* C2: a save_schema with count c on an existing entry whose stored count  *)
(* was c0 leaves the stored count, as get_schema('count') returns it, at   *)
(* c0 + c: the count is added, never replaced.                             *)
C2_CountIsAdded ==
    (last.op = "save_schema" /\ WellFormedBefore)
        => GetNow("count").ret = PyInt(First(Before).f_count + last.count)

(* C4: the stored sample list of every entry has at most 200 entries.      *)
C4_SampleCap ==
    \A r \in store :
        Decodable(r.f_part_of_data)
            => Len(deserialize_b64(r.f_part_of_data).l) <= SampleCap

(* a save_schema that supplied more than 200 samples has acted on an entry *)
(* that held fewer than 200                                                *)
C4_Witness ==
    /\ last.op = "save_schema"
    /\ WellFormedBefore
    /\ Len(deserialize_b64(First(Before).f_part_of_data).l) < SampleCap
    /\ Len(last.party_of_data.l) > SampleCap

(* C5: get_schema on a (name, namespace) with no entry returns {} for      *)
(* every kind and raises nothing.                                          *)
C5_GetMissingIsEmpty ==
    (last.op = "get_schema" /\ Before = {})
        => last.exc = "none" /\ last.ret = PyDict(EmptyMap)

(* get_schema('count') has returned for a table with no entry while other  *)
(* entries exist                                                           *)
C5_Witness ==
    /\ last.op = "get_schema"
    /\ Before = {}
    /\ last.type = "count"
    /\ last.pre # {}

(* C6: save_schema on a (name, namespace) with no entry raises the         *)
(* missing-entry error and leaves the catalog unchanged: no row is created.*)
C6_SaveMissingRaises ==
    (last.op = "save_schema" /\ Before = {})
        => last.exc = "Exception" /\ store = last.pre

(* save_schema with a schema, samples and a count has ended for a table    *)
(* with no entry                                                           *)
C6_Witness ==
    /\ last.op = "save_schema"
    /\ Before = {}
    /\ Truthy(last.schema_data)
    /\ Truthy(last.party_of_data)
    /\ last.count # 0

C8_SchemaIsOverlaid ==
    (last.op = "save_schema" /\ WellFormedBefore /\ Truthy(last.schema_data))
        => /\ After # {}
           /\ First(After).f_schema =
                  serialize_b64(PyDict(Overlay(deserialize_b64(First(Before).f_schema).d,
                                               last.schema_data.d)))

(* C9: a save_schema with a non-empty sample list S on an entry whose      *)
(* stored list is L leaves L when len(L) >= 200, and otherwise stores L    *)
(* followed by the first 200 - len(L) elements of S.                       *)
C9_SamplesAreAppended ==
    (last.op = "save_schema" /\ WellFormedBefore /\ Truthy(last.party_of_data))
        => LET L == deserialize_b64(First(Before).f_part_of_data).l
               S == last.party_of_data.l
           IN  /\ After # {}
               /\ First(After).f_part_of_data =
                      serialize_b64(PyList(IF Len(L) >= SampleCap THEN L
                                           ELSE L \o Slice(S, SampleCap - Len(L))))

(* the schema or sample blob that the last get_schema read was undecodable *)
UndecodableRead ==
    /\ last.op = "get_schema"
    /\ Before # {}
    /\ \/ last.type = "schema" /\ ~Decodable(First(Before).f_schema)
       \/ last.type = "data" /\ ~Decodable(First(Before).f_part_of_data)

(* C10 as stated: get_schema on an undecodable blob raises nothing and     *)
(* returns the {} it returns when there is no data.                        *)
C10_UndecodableIsEmpty ==
    UndecodableRead => last.exc = "none" /\ last.ret = PyDict(EmptyMap)

(* C10 amended: get_schema on an undecodable blob raises nothing and       *)
(* returns None, which is not the {} it returns when there is no entry.    *)
C10_UndecodableIsNone ==
    UndecodableRead => last.exc = "none" /\ last.ret = PyNone

(* get_schema has read a corrupt schema blob *)
C10_Witness ==
    /\ UndecodableRead
    /\ last.type = "schema"
    /\ First(Before).f_schema = CorruptBlob

----------------------------------------------------------------------------
(* Properties of the concurrent callers (SpecConcurrent) *)

RECURSIVE SumCounts(_, _)
(* the sum of the counts the callers in P supplied for the table k *)
SumCounts(P, k) ==
    IF P = {} THEN 0
    ELSE LET p == CHOOSE q \in P : TRUE
         IN  (IF <<loc[p].name, loc[p].namespace>> = k THEN loc[p].count ELSE 0)
             + SumCounts(P \ {p}, k)

(* C3: when concurrent save_schema calls with non-zero counts on the same  *)
(* table have all ended, the stored count is the initial count plus the    *)
(* sum of the counts supplied: no increment is lost.                       *)
C3_NoLostIncrement ==
    (\A p \in Procs : pc[p] = "done")
        => \A k \in Keys :
              LET e0 == Select(store0, k[1], k[2])
                  e == Select(store, k[1], k[2])
              IN  (/\ e0 # {}
                   /\ Decodable(First(e0).f_schema)
                   /\ \A p \in Procs : <<loc[p].name, loc[p].namespace>> = k)
                      => /\ e # {}
                         /\ First(e).f_count = First(e0).f_count + SumCounts(Procs, k)

----------------------------------------------------------------------------
(* Further properties of the sequential caller (Spec) *)

(* C11: destroy() and destroy_schema() on a (name, namespace) with no      *)
(* entry raise nothing and leave the catalog unchanged; so a destroy that  *)
(* follows a destroy which removed the entry changes nothing more.         *)
C11_DestroyMissingIsNoOp ==
    /\ (last.op \in {"destroy", "destroy_schema"} /\ Before = {})
          => last.exc = "none" /\ store = last.pre
    /\ (last.op \in {"destroy", "destroy_schema"} /\ After = {})
          => \A deleteFails \in BOOLEAN :
                /\ destroy(store, last.name, last.namespace, deleteFails).exc = "none"
                /\ destroy(store, last.name, last.namespace, deleteFails).rows = store

(* destroy() has ended for a table with no entry while the catalog holds   *)
(* an entry of another table with the same name                            *)
C11_Witness ==
    /\ last.op = "destroy"
    /\ Before = {}
    /\ ~last.deleteFails
    /\ \E r \in last.pre : r.f_table_name = last.name

(* C12: every save_schema on an existing entry sets updated_at to the time *)
(* of the call, whatever arguments it was given.                           *)
C12_UpdatedAtIsSet ==
    (last.op = "save_schema" /\ WellFormedBefore)
        => After # {} /\ First(After).f_update_time = last.now

(* C13: the catalog holds at most one row for each (table_name, namespace) *)
C13_OneRowPerKey ==
    \A r1 \in store, r2 \in store :
        (r1.f_table_name = r2.f_table_name /\ r1.f_namespace = r2.f_namespace)
            => r1 = r2

(* save_schema with a count has ended on an existing entry at a later time *)
(* than the entry was written, next to the entry of another table          *)
C13_Witness ==
    /\ last.op = "save_schema"
    /\ WellFormedBefore
    /\ last.count # 0
    /\ last.now > First(Before).f_update_time
    /\ Cardinality(last.pre) >= 2

(* C14: destroy_schema and destroy raise nothing; a deletion that fails is *)
(* logged and the call returns normally.                                   *)
C14_DestroyNeverRaises ==
    last.op \in {"destroy_schema", "destroy"}
        => /\ last.exc = "none"
           /\ last.deleteFails => last.logged

(* destroy() has ended on an existing entry whose deletion failed *)
C14_Witness ==
    /\ last.op = "destroy"
    /\ last.deleteFails
    /\ Before # {}

(* C15: every get_schema, save_schema and destroy_schema call has released *)
(* the one connection scope it opened when it ends, on every exit path: no *)
(* scope is open between two calls.                                        *)
C15_ScopeReleased == open = 0

(* save_schema on an existing entry has ended with an exception raised    *)
(* inside its scope                                                        *)
C15_Witness ==
    /\ last.op = "save_schema"
    /\ last.exc # "none"
    /\ Before # {}

C17_RaiseLeavesStore ==
    (last.op = "save_schema" /\ last.exc # "none") => store = last.pre

(* save_schema with a schema, samples and a count has raised while merging *)
(* into an existing entry                                                  *)
C17_Witness ==
    /\ last.op = "save_schema"
    /\ last.exc = "AttributeError"
    /\ WellFormedBefore
    /\ Truthy(last.schema_data)
    /\ Truthy(last.party_of_data)
    /\ last.count # 0

(* the rows of the tables other than the table of the last call *)
OtherRows(rows) ==
    {r \in rows : <<r.f_table_name, r.f_namespace>> # <<last.name, last.namespace>>}

(* the rows of the table of the last call *)
OwnRows(rows) ==
    {r \in rows : <<r.f_table_name, r.f_namespace>> = <<last.name, last.namespace>>}

(* C18: a call on the table (n, ns) leaves the entries of every other key  *)
(* as they were and reads the entry of (n, ns) only; get_schema changes no *)
(* entry at all.                                                           *)
C18_OnlyOwnEntry ==
    /\ last.op # "none" => OtherRows(store) = OtherRows(last.pre)
    /\ last.op = "get_schema"
          => /\ store = last.pre
             /\ last.ret = get_schema(OwnRows(last.pre), last.name, last.namespace,
                                      last.type).ret
    /\ last.op = "save_schema"
          => last.exc = save_schema(last.name, last.namespace, OwnRows(last.pre),
                                    OwnRows(last.pre), last.schema_data,
                                    last.party_of_data, last.count, last.now).exc

(* destroy() has deleted the entry of a table while the catalog holds the  *)
(* entry of another table with the same name or the same namespace         *)
C18_Witness ==
    /\ last.op = "destroy"
    /\ Before # {}
    /\ After = {}
    /\ \E r \in store : r.f_table_name = last.name \/ r.f_namespace = last.namespace

====
